---- MODULE Spec2Model ----
(***************************************************************************)
(* go-fp: the short-circuiting containers Chain[T] (value kind) and        *)
(* Wrapper[T] (reference kind) and their combinators, as a state machine   *)
(* of a caller that builds a container and pipes it through combinator     *)
(* calls.  T is modelled by small integers, *T by handles into a heap.     *)
(***************************************************************************)
EXTENDS Integers, Sequences, FiniteSets, TLC

VARIABLES
    kind,   \* "Chain" or "Wrapper": the kind of the container the caller holds
    cur,    \* the container the caller holds (the receiver of the next call)
    heap,   \* the T values behind the non-nil handles
    last,   \* the call just made: receiver, arguments, outcome, callbacks
            \* invoked, and the heap before it; NoCall once the caller has
            \* taken its result
    pipe    \* the Wrap(v).Then(f1)...Then(fn).Result() pipeline being run

vars == <<kind, cur, heap, last, pipe>>

----------------------------------------------------------------------------
(* Bounds of the model *)

MaxVal == 1
MaxHandle == 2
MaxSteps == 3
MaxPipeVal == 3
MaxLen == 3

Val == 0..MaxVal
ZeroT == 0                  \* Go's zero value of T (var zeroU U)
Null == 0                   \* the nil *T
Handle == 0..MaxHandle
Cell == 1..MaxHandle

----------------------------------------------------------------------------
(* Go's error values *)

NoErr == [isErr |-> FALSE, msg |-> ""]
NewError(m) == [isErr |-> TRUE, msg |-> m]

UserErr == {NewError("val cannot be 3"), NewError("forced error")}
ErrArg == {NoErr} \cup UserErr
(* the errors the caller's functions return *)
FnErr == {NoErr, NewError("forced error")}

(* Values a panic can carry, and fmt's %v rendering of them *)
StrPayload(s) == [t |-> "str", s |-> s, n |-> 0]
IntPayload(n) == [t |-> "int", s |-> "", n |-> n]
NoFault == [t |-> "none", s |-> "", n |-> 0]
NilDeref == [t |-> "runtime", s |-> "invalid memory address or nil pointer dereference", n |-> 0]
Payload == {StrPayload("ouch"), IntPayload(7)}

FormatV(p) == IF p.t = "int" THEN ToString(p.n) ELSE p.s

(* fmt.Errorf("panic recovered: %v", r) *)
PanicRecovered_NoPrefix(r) == NewError("panic: " \o FormatV(r))
PanicRecovered(r) == NewError("panic recovered: " \o FormatV(r))

----------------------------------------------------------------------------
(* Caller-supplied functions.  A function value is nil, or is described by *)
(* what one invocation of it does: return (val, err) or a bool b or a      *)
(* container (val, err, hook), possibly after writing mv through its       *)
(* non-nil pointer argument, or panic with payload p.                      *)

NilFn == [k |-> "nil", val |-> 0, err |-> NoErr, b |-> FALSE, hook |-> "nil",
          mut |-> FALSE, mv |-> 0, p |-> NoFault]
RetFn(v, e) == [NilFn EXCEPT !.k = "ret", !.val = v, !.err = e]
PanicFn(p) == [NilFn EXCEPT !.k = "panic", !.p = p]
PredFn(b) == [NilFn EXCEPT !.k = "ret", !.b = b]

ChainStepFns == {NilFn} \cup {RetFn(v, e) : v \in Val, e \in FnErr}
                        \cup {PanicFn(p) : p \in Payload}
ChainMapFns == {NilFn} \cup {RetFn(v, NoErr) : v \in Val}
                       \cup {PanicFn(p) : p \in Payload}
PredFns == {NilFn, PredFn(TRUE), PredFn(FALSE)} \cup {PanicFn(p) : p \in Payload}

(* func(T) Chain[U]: the returned chain is (val, err) *)
ChainBindFns == ChainStepFns

(* Functions over *T may write through a non-nil argument before returning *)
Writes == {<<FALSE, 0>>} \cup {<<TRUE, v>> : v \in Val}
Writing(fn, m) == [fn EXCEPT !.mut = m[1], !.mv = m[2]]

Hooks == {"nil", "identity", "suppress", "rewrite"}

WrapperStepFns == {NilFn} \cup {Writing(RetFn(h, e), m) : h \in Handle, e \in FnErr, m \in Writes}
                          \cup {PanicFn(p) : p \in Payload}
WrapperMapFns == {NilFn} \cup {Writing(RetFn(0, NoErr), m) : m \in Writes}
                         \cup {PanicFn(p) : p \in Payload}
ProducerFns == {NilFn} \cup {RetFn(h, e) : h \in Handle, e \in FnErr}
                       \cup {PanicFn(p) : p \in Payload}
(* func from *T to Wrapper[U]: the returned wrapper is (val, err, hook) *)
WrapperBindFns == {NilFn} \cup {[Writing(RetFn(h, e), m) EXCEPT !.hook = k] :
                                   h \in Handle, e \in FnErr,
                                   m \in {<<FALSE, 0>>, <<TRUE, MaxVal>>},
                                   k \in {"nil", "suppress"}}
                          \cup {PanicFn(p) : p \in Payload}
(* func from *T to *U *)
WrapperLiftFns == {NilFn} \cup {Writing(RetFn(h, NoErr), m) :
                                   h \in Handle, m \in {<<FALSE, 0>>, <<TRUE, MaxVal>>}}
                          \cup {PanicFn(p) : p \in Payload}
(* the nil *func of a Wrapper of func from *T to a *U and an error *)
NilFnPtr == [NilFn EXCEPT !.k = "nilptr"]

----------------------------------------------------------------------------
(* The outcome of one call: it returned res, or it panicked with fault;    *)
(* self is the receiver's storage after the call, calls the callbacks it   *)
(* invoked in order (with the value or error handed to each), hp the heap  *)
(* after it.                                                               *)

Invoked(name, v, e) == [fn |-> name, v |-> v, e |-> e]

Returns(res, self, calls) ==
    [ret |-> TRUE, res |-> res, self |-> self, calls |-> calls, fault |-> NoFault]
Panics(p, self, calls) ==
    [ret |-> FALSE, res |-> self, self |-> self, calls |-> calls, fault |-> p]

----------------------------------------------------------------------------
(* Chain[T]: the value kind *)

ChainOf(v, e) == [val |-> v, err |-> e]

Wrap(v) == ChainOf(v, NoErr)

ChainWithError_InPlace(c, err) ==
    Returns(ChainOf(c.val, err), ChainOf(c.val, err), <<>>)
ChainWithError(c, err) ==
    \* value receiver: c.err = err changes the callee's copy
    Returns(ChainOf(c.val, err), c, <<>>)

ChainThen_NoShortCircuit(c, f) ==
    IF f.k = "nil" THEN Returns(c, c, <<>>)
    ELSE IF f.k = "panic" THEN Panics(f.p, c, <<Invoked("f", c.val, NoErr)>>)
    ELSE Returns(ChainOf(f.val, f.err), c, <<Invoked("f", c.val, NoErr)>>)
ChainThen(c, f) ==
    IF c.err # NoErr \/ f.k = "nil" THEN Returns(c, c, <<>>)
    ELSE IF f.k = "panic" THEN Panics(f.p, c, <<Invoked("f", c.val, NoErr)>>)
    ELSE Returns(ChainOf(f.val, f.err), c, <<Invoked("f", c.val, NoErr)>>)

ChainResult(c) == <<c.val, c.err>>

ChainMap_NoShortCircuit(c, f) ==
    IF f.k = "nil" THEN Panics(NilDeref, c, <<>>)
    ELSE IF f.k = "panic" THEN Panics(f.p, c, <<Invoked("f", c.val, NoErr)>>)
    ELSE Returns(ChainOf(f.val, NoErr), c, <<Invoked("f", c.val, NoErr)>>)
ChainMap(c, f) ==
    IF c.err # NoErr THEN Returns(c, c, <<>>)
    ELSE IF f.k = "nil" THEN Panics(NilDeref, c, <<>>)
    ELSE IF f.k = "panic" THEN Panics(f.p, c, <<Invoked("f", c.val, NoErr)>>)
    ELSE Returns(ChainOf(f.val, NoErr), c, <<Invoked("f", c.val, NoErr)>>)

ChainFilter_DropsValue(c, pred, err) ==
    IF c.err # NoErr THEN Returns(c, c, <<>>)
    ELSE IF pred.k = "nil" THEN Panics(NilDeref, c, <<>>)
    ELSE IF pred.k = "panic" THEN Panics(pred.p, c, <<Invoked("pred", c.val, NoErr)>>)
    ELSE IF ~pred.b THEN Returns(ChainOf(ZeroT, err), c, <<Invoked("pred", c.val, NoErr)>>)
    ELSE Returns(c, c, <<Invoked("pred", c.val, NoErr)>>)
ChainFilter(c, pred, err) ==
    IF c.err # NoErr THEN Returns(c, c, <<>>)
    ELSE IF pred.k = "nil" THEN Panics(NilDeref, c, <<>>)
    ELSE IF pred.k = "panic" THEN Panics(pred.p, c, <<Invoked("pred", c.val, NoErr)>>)
    ELSE IF ~pred.b THEN Returns(ChainOf(c.val, err), c, <<Invoked("pred", c.val, NoErr)>>)
    ELSE Returns(c, c, <<Invoked("pred", c.val, NoErr)>>)

ChainOrElse_ClearsError(c, defaultVal) ==
    IF c.err # NoErr THEN Returns(ChainOf(defaultVal, NoErr), c, <<>>)
    ELSE Returns(c, c, <<>>)
ChainOrElse(c, defaultVal) ==
    IF c.err # NoErr THEN Returns(ChainOf(defaultVal, c.err), c, <<>>)
    ELSE Returns(c, c, <<>>)

ChainRecover(c, fn) ==
    IF c.err # NoErr \/ fn.k = "nil" THEN Returns(c, c, <<>>)
    ELSE IF fn.k = "panic"
         THEN \* the deferred recover() replaces the named result
              Returns(ChainOf(ZeroT, PanicRecovered(fn.p)), c, <<Invoked("fn", 0, NoErr)>>)
    ELSE Returns(ChainOf(fn.val, fn.err), c, <<Invoked("fn", 0, NoErr)>>)

(* the callbacks handed to Match: func(T) and func(error) *)
MatchFns == {NilFn, RetFn(0, NoErr)} \cup {PanicFn(p) : p \in Payload}

(* Match has no result: res stands for none *)
ChainMatch_FallsThrough(c, success, failure) ==
    LET onFailure == IF c.err # NoErr /\ failure.k # "nil"
                     THEN <<Invoked("failure", 0, c.err)>> ELSE <<>>
        onSuccess == IF success.k # "nil"
                     THEN <<Invoked("success", c.val, NoErr)>> ELSE <<>>
    IN  Returns(c, c, onFailure \o onSuccess)
ChainMatch(c, success, failure) ==
    IF c.err # NoErr
    THEN IF failure.k = "nil" THEN Returns(c, c, <<>>)
         ELSE IF failure.k = "panic"
         THEN Panics(failure.p, c, <<Invoked("failure", 0, c.err)>>)
         ELSE Returns(c, c, <<Invoked("failure", 0, c.err)>>)
    ELSE IF success.k = "nil" THEN Returns(c, c, <<>>)
    ELSE IF success.k = "panic"
         THEN Panics(success.p, c, <<Invoked("success", c.val, NoErr)>>)
    ELSE Returns(c, c, <<Invoked("success", c.val, NoErr)>>)

(* fmt.Sprintf("called Unwrap on error: %v", c.err) *)
UnwrapFault(err) == StrPayload("called Unwrap on error: " \o err.msg)

ChainUnwrap(c) ==
    IF c.err # NoErr THEN Panics(UnwrapFault(c.err), c, <<>>)
    ELSE Returns(c.val, c, <<>>)

ChainIsSuccess(c) == c.err = NoErr
ChainIsFailure(c) == c.err # NoErr
ChainHasError(c) == c.err

----------------------------------------------------------------------------
(* Chain[T]: the free functions *)

(* c is a Chain[Chain[U]]: c.val is the inner chain *)
ChainFlatten_InnerFirst(c) ==
    IF c.val.err # NoErr THEN Returns(ChainOf(ZeroT, c.val.err), c, <<>>)
    ELSE IF c.err # NoErr THEN Returns(ChainOf(ZeroT, c.err), c, <<>>)
    ELSE Returns(ChainOf(c.val.val, NoErr), c, <<>>)
ChainFlatten(c) ==
    IF c.err # NoErr THEN Returns(ChainOf(ZeroT, c.err), c, <<>>)
    ELSE IF c.val.err # NoErr THEN Returns(ChainOf(ZeroT, c.val.err), c, <<>>)
    ELSE Returns(ChainOf(c.val.val, NoErr), c, <<>>)

ChainBind_KeepsValue(c, f) ==
    IF c.err # NoErr THEN Returns(ChainOf(c.val, c.err), c, <<>>)
    ELSE IF f.k = "nil" THEN Returns(ChainOf(ZeroT, NoErr), c, <<>>)
    ELSE IF f.k = "panic" THEN Panics(f.p, c, <<Invoked("f", c.val, NoErr)>>)
    ELSE Returns(ChainOf(f.val, f.err), c, <<Invoked("f", c.val, NoErr)>>)
ChainBind(c, f) ==
    IF c.err # NoErr THEN Returns(ChainOf(ZeroT, c.err), c, <<>>)
    ELSE IF f.k = "nil" THEN Returns(ChainOf(ZeroT, NoErr), c, <<>>)
    ELSE IF f.k = "panic" THEN Panics(f.p, c, <<Invoked("f", c.val, NoErr)>>)
    ELSE Returns(ChainOf(f.val, f.err), c, <<Invoked("f", c.val, NoErr)>>)

(* f is a Chain[func(T) U]: f.val is the function *)
ChainApply_FcFirst(c, f) ==
    IF f.err # NoErr THEN Returns(ChainOf(ZeroT, f.err), c, <<>>)
    ELSE IF c.err # NoErr THEN Returns(ChainOf(ZeroT, c.err), c, <<>>)
    ELSE IF f.val.k = "nil" THEN Returns(ChainOf(ZeroT, NoErr), c, <<>>)
    ELSE IF f.val.k = "panic" THEN Panics(f.val.p, c, <<Invoked("f", c.val, NoErr)>>)
    ELSE Returns(ChainOf(f.val.val, NoErr), c, <<Invoked("f", c.val, NoErr)>>)
ChainApply(c, f) ==
    IF c.err # NoErr THEN Returns(ChainOf(ZeroT, c.err), c, <<>>)
    ELSE IF f.err # NoErr THEN Returns(ChainOf(ZeroT, f.err), c, <<>>)
    ELSE IF f.val.k = "nil" THEN Returns(ChainOf(ZeroT, NoErr), c, <<>>)
    ELSE IF f.val.k = "panic" THEN Panics(f.val.p, c, <<Invoked("f", c.val, NoErr)>>)
    ELSE Returns(ChainOf(f.val.val, NoErr), c, <<Invoked("f", c.val, NoErr)>>)

Lift(v) == Wrap(v)

(* LiftResult has no receiver: self stands for none *)
LiftResult(fn) ==
    IF fn.k = "nil" THEN Returns(ChainOf(ZeroT, NoErr), ChainOf(ZeroT, NoErr), <<>>)
    ELSE IF fn.k = "panic"
         THEN Panics(fn.p, ChainOf(ZeroT, NoErr), <<Invoked("fn", 0, NoErr)>>)
    ELSE IF fn.err # NoErr
         THEN Returns(ChainWithError(Wrap(fn.val), fn.err).res, Wrap(fn.val),
                      <<Invoked("fn", 0, NoErr)>>)
    ELSE Returns(Wrap(fn.val), Wrap(fn.val), <<Invoked("fn", 0, NoErr)>>)

(* LiftM(f) applied to c *)
ChainLiftM_NilIsError(c, f) ==
    IF c.err # NoErr THEN Returns(ChainOf(ZeroT, c.err), c, <<>>)
    ELSE IF f.k = "nil" THEN Returns(ChainOf(ZeroT, NewError("forced error")), c, <<>>)
    ELSE IF f.k = "panic" THEN Panics(f.p, c, <<Invoked("f", c.val, NoErr)>>)
    ELSE Returns(Wrap(f.val), c, <<Invoked("f", c.val, NoErr)>>)
ChainLiftM(c, f) ==
    IF c.err # NoErr THEN Returns(ChainOf(ZeroT, c.err), c, <<>>)
    ELSE IF f.k = "nil" THEN Returns(ChainOf(ZeroT, NoErr), c, <<>>)
    ELSE IF f.k = "panic" THEN Panics(f.p, c, <<Invoked("f", c.val, NoErr)>>)
    ELSE Returns(Wrap(f.val), c, <<Invoked("f", c.val, NoErr)>>)

----------------------------------------------------------------------------
(* Wrapper[T]: the reference kind.  A call's outcome also carries hp, the  *)
(* heap after it.                                                          *)

WrapperOf(v, e, h) == [val |-> v, err |-> e, errHandler |-> h]

WReturns(res, self, calls, hp) ==
    [ret |-> TRUE, res |-> res, self |-> self, calls |-> calls, fault |-> NoFault,
     hp |-> hp]
WPanics(p, self, calls, hp) ==
    [ret |-> FALSE, res |-> self, self |-> self, calls |-> calls, fault |-> p,
     hp |-> hp]

(* the caller's error handlers (func(error) error) *)
HandlerResult(h, e) ==
    CASE h = "identity" -> e
      [] h = "suppress" -> NoErr
      [] h = "rewrite" -> NewError("handled: " \o e.msg)

(* the heap after fn ran on handle v *)
Written(hp, v, fn) == IF fn.mut /\ v # Null THEN [hp EXCEPT ![v] = fn.mv] ELSE hp

(* &zeroU: a cell no container refers to, holding the zero value *)
FreshCell(w) == CHOOSE h \in Cell : h # w.val

New(val, errHandler) == WrapperOf(val, NoErr, errHandler)

WrapperWithError(w, err, hp) ==
    \* pointer receiver: w.err = err writes the caller's wrapper, and w is returned
    WReturns([w EXCEPT !.err = err], [w EXCEPT !.err = err], <<>>, hp)

WrapperThen_KeepsNewVal(w, fn, hp) ==
    IF w.err # NoErr \/ fn.k = "nil" THEN WReturns(w, w, <<>>, hp)
    ELSE IF fn.k = "panic"
         THEN WPanics(fn.p, w, <<Invoked("fn", w.val, NoErr)>>, Written(hp, w.val, fn))
    ELSE LET handled == fn.err # NoErr /\ w.errHandler # "nil"
             err == IF handled THEN HandlerResult(w.errHandler, fn.err) ELSE fn.err
             calls == <<Invoked("fn", w.val, NoErr)>> \o
                      (IF handled THEN <<Invoked("errHandler", 0, fn.err)>> ELSE <<>>)
         IN  WReturns(WrapperOf(fn.val, err, w.errHandler), w, calls,
                      Written(hp, w.val, fn))
WrapperThen_NoNilCheck(w, fn, hp) ==
    IF w.err # NoErr THEN WReturns(w, w, <<>>, hp)
    ELSE IF fn.k = "nil" THEN WPanics(NilDeref, w, <<>>, hp)
    ELSE WrapperThen_KeepsNewVal(w, fn, hp)
WrapperThen(w, fn, hp) ==
    IF w.err # NoErr \/ fn.k = "nil" THEN WReturns(w, w, <<>>, hp)
    ELSE IF fn.k = "panic"
         THEN WPanics(fn.p, w, <<Invoked("fn", w.val, NoErr)>>, Written(hp, w.val, fn))
    ELSE IF fn.err # NoErr
         THEN LET handled == w.errHandler # "nil"
                  err == IF handled THEN HandlerResult(w.errHandler, fn.err) ELSE fn.err
                  calls == <<Invoked("fn", w.val, NoErr)>> \o
                           (IF handled THEN <<Invoked("errHandler", 0, fn.err)>> ELSE <<>>)
              IN  IF err # NoErr
                  THEN WReturns(WrapperOf(w.val, err, w.errHandler), w, calls,
                                Written(hp, w.val, fn))
                  ELSE WReturns(w, w, calls, Written(hp, w.val, fn))
    ELSE WReturns(WrapperOf(fn.val, NoErr, w.errHandler), w,
                  <<Invoked("fn", w.val, NoErr)>>, Written(hp, w.val, fn))

WrapperResult(w) == <<w.val, w.err>>

WrapperMap_OnCopy(w, f, hp) ==
    IF w.err # NoErr THEN WReturns(w, w, <<>>, hp)
    ELSE IF f.k = "nil" THEN WPanics(NilDeref, w, <<>>, hp)
    ELSE IF f.k = "panic" THEN WPanics(f.p, w, <<Invoked("f", w.val, NoErr)>>, hp)
    ELSE WReturns(w, w, <<Invoked("f", w.val, NoErr)>>, hp)
WrapperMap_CatchesPanic(w, f, hp) ==
    IF w.err # NoErr THEN WReturns(w, w, <<>>, hp)
    ELSE IF f.k = "nil" THEN WPanics(NilDeref, w, <<>>, hp)
    ELSE IF f.k = "panic"
         THEN WReturns(WrapperOf(w.val, PanicRecovered(f.p), w.errHandler), w,
                       <<Invoked("f", w.val, NoErr)>>, Written(hp, w.val, f))
    ELSE WReturns(w, w, <<Invoked("f", w.val, NoErr)>>, Written(hp, w.val, f))
WrapperMap(w, f, hp) ==
    IF w.err # NoErr THEN WReturns(w, w, <<>>, hp)
    ELSE IF f.k = "nil" THEN WPanics(NilDeref, w, <<>>, hp)
    ELSE IF f.k = "panic"
         THEN WPanics(f.p, w, <<Invoked("f", w.val, NoErr)>>, Written(hp, w.val, f))
    ELSE WReturns(w, w, <<Invoked("f", w.val, NoErr)>>, Written(hp, w.val, f))

WrapperFlatMap(w, f, hp) ==
    IF w.err # NoErr THEN WReturns(w, w, <<>>, hp)
    ELSE IF f.k = "nil" THEN WPanics(NilDeref, w, <<>>, hp)
    ELSE IF f.k = "panic"
         THEN WPanics(f.p, w, <<Invoked("f", w.val, NoErr)>>, Written(hp, w.val, f))
    ELSE WReturns(WrapperOf(f.val, f.err, f.hook), w,
                  <<Invoked("f", w.val, NoErr)>>, Written(hp, w.val, f))

WrapperOrElse_KeepsError(w, defaultVal, hp) ==
    IF w.err # NoErr THEN WReturns(WrapperOf(defaultVal, w.err, w.errHandler), w, <<>>, hp)
    ELSE WReturns(w, w, <<>>, hp)
WrapperOrElse(w, defaultVal, hp) ==
    IF w.err # NoErr THEN WReturns(WrapperOf(defaultVal, NoErr, w.errHandler), w, <<>>, hp)
    ELSE WReturns(w, w, <<>>, hp)

(* w is a Wrapper[Wrapper[U]]: w.val is nil or points to the inner wrapper *)
WrapperFlatten(w, hp) ==
    IF w.err # NoErr THEN WReturns(WrapperOf(Null, w.err, "nil"), w, <<>>, hp)
    ELSE IF w.val.null THEN WPanics(NilDeref, w, <<>>, hp)
    ELSE IF w.val.w.err # NoErr
         THEN WReturns(WrapperOf(Null, w.val.w.err, "nil"), w, <<>>, hp)
    ELSE WReturns(WrapperOf(w.val.w.val, NoErr, w.errHandler), w, <<>>, hp)

WrapperRecover(w, fn, hp) ==
    IF w.err # NoErr \/ fn.k = "nil" THEN WReturns(w, w, <<>>, hp)
    ELSE IF fn.k = "panic"
         THEN \* the deferred recover() replaces the named result
              WReturns(WrapperOf(Null, PanicRecovered(fn.p), "nil"), w,
                       <<Invoked("fn", 0, NoErr)>>, hp)
    ELSE WReturns(WrapperOf(fn.val, fn.err, w.errHandler), w,
                  <<Invoked("fn", 0, NoErr)>>, hp)

(* Match has no result: res stands for none *)
WrapperMatch(w, success, failure, hp) ==
    IF w.err # NoErr
    THEN IF failure.k = "nil" THEN WReturns(w, w, <<>>, hp)
         ELSE IF failure.k = "panic"
         THEN WPanics(failure.p, w, <<Invoked("failure", 0, w.err)>>, hp)
         ELSE WReturns(w, w, <<Invoked("failure", 0, w.err)>>, hp)
    ELSE IF success.k = "nil" THEN WReturns(w, w, <<>>, hp)
    ELSE IF success.k = "panic"
         THEN WPanics(success.p, w, <<Invoked("success", w.val, NoErr)>>,
                      Written(hp, w.val, success))
    ELSE WReturns(w, w, <<Invoked("success", w.val, NoErr)>>, Written(hp, w.val, success))

WrapperUnwrap_NoPanic(w, hp) == WReturns(w.val, w, <<>>, hp)
WrapperUnwrap(w, hp) ==
    IF w.err # NoErr THEN WPanics(UnwrapFault(w.err), w, <<>>, hp)
    ELSE WReturns(w.val, w, <<>>, hp)

WrapperIsSuccess(w) == w.err = NoErr
WrapperIsFailure(w) == w.err # NoErr
WrapperHasError(w) == w.err

WrapperBind(w, f, hp) ==
    IF w.err # NoErr THEN WReturns(WrapperOf(Null, w.err, w.errHandler), w, <<>>, hp)
    ELSE IF f.k = "nil" THEN WReturns(WrapperOf(Null, NoErr, w.errHandler), w, <<>>, hp)
    ELSE IF f.k = "panic"
         THEN WPanics(f.p, w, <<Invoked("f", w.val, NoErr)>>, Written(hp, w.val, f))
    ELSE WReturns(WrapperOf(f.val, f.err, f.hook), w,
                  <<Invoked("f", w.val, NoErr)>>, Written(hp, w.val, f))

(* f is a Wrapper of func from *T to a *U and an error: f.val is nil or points to the function *)
WrapperApply(w, f, hp) ==
    IF w.err # NoErr THEN WReturns(WrapperOf(Null, w.err, w.errHandler), w, <<>>, hp)
    ELSE IF f.err # NoErr THEN WReturns(WrapperOf(Null, f.err, w.errHandler), w, <<>>, hp)
    ELSE IF f.val.k = "nilptr"
         THEN WReturns(WrapperOf(Null, NoErr, w.errHandler), w, <<>>, hp)
    ELSE IF f.val.k = "nil" THEN WPanics(NilDeref, w, <<>>, hp)
    ELSE IF f.val.k = "panic"
         THEN WPanics(f.val.p, w, <<Invoked("f", w.val, NoErr)>>, Written(hp, w.val, f.val))
    ELSE WReturns(WrapperOf(f.val.val, f.val.err, w.errHandler), w,
                  <<Invoked("f", w.val, NoErr)>>, Written(hp, w.val, f.val))

WrapperLift(v, errHandler) == WrapperOf(v, NoErr, errHandler)

(* LiftM(f) applied to w *)
WrapperLiftM(w, f, hp) ==
    IF w.err # NoErr THEN WReturns(WrapperOf(Null, w.err, "nil"), w, <<>>, hp)
    ELSE IF f.k = "nil"
         THEN WReturns(WrapperOf(FreshCell(w), NoErr, "nil"), w, <<>>,
                       [hp EXCEPT ![FreshCell(w)] = ZeroT])
    ELSE IF f.k = "panic"
         THEN WPanics(f.p, w, <<Invoked("f", w.val, NoErr)>>, Written(hp, w.val, f))
    ELSE WReturns(WrapperOf(f.val, NoErr, w.errHandler), w,
                  <<Invoked("f", w.val, NoErr)>>, Written(hp, w.val, f))

FlatMapU(w, f, hp) ==
    IF w.err # NoErr THEN WReturns(WrapperOf(Null, w.err, "nil"), w, <<>>, hp)
    ELSE IF f.k = "nil"
         THEN WReturns(WrapperOf(FreshCell(w), NoErr, "nil"), w, <<>>,
                       [hp EXCEPT ![FreshCell(w)] = ZeroT])
    ELSE IF f.k = "panic"
         THEN WPanics(f.p, w, <<Invoked("f", w.val, NoErr)>>, Written(hp, w.val, f))
    ELSE WReturns(WrapperOf(f.val, f.err, f.hook), w,
                  <<Invoked("f", w.val, NoErr)>>, Written(hp, w.val, f))

----------------------------------------------------------------------------
(* Collection combinators.  A slice is nil or holds elems; the functions   *)
(* handed to them are called once per element, so they are named total     *)
(* functions: the ones of the tests and an order-sensitive reduce.         *)

ZeroR == 0                  \* Go's zero value of R (var result R)

NilSlice == [nil |-> TRUE, elems |-> <<>>]
SliceOf(elems) == [nil |-> FALSE, elems |-> elems]
(* var filtered []T with zero or more appends *)
Appended(elems) == IF elems = <<>> THEN NilSlice ELSE SliceOf(elems)

PredNames == {"nil", "IsEven", "IsPositive"}
Predicate(name, v) ==
    CASE name = "IsEven" -> v % 2 = 0
      [] name = "IsPositive" -> v > 0

MapFnNames == {"nil", "Val", "Double"}
MapFn(name, v) ==
    CASE name = "Val" -> v
      [] name = "Double" -> 2 * v

ReduceFnNames == {"nil", "Sum", "Sub"}
ReduceFn(name, a, b) ==
    CASE name = "Sum" -> a + b
      [] name = "Sub" -> a - b

ZeroArgs == {0, 999}

(* for _, c := range chains of FilterChains, from element i on *)
RECURSIVE FilterChainsLoop(_, _, _, _, _)
FilterChainsLoop_NoErrCheck(chains, predicate, i, filtered, calls) ==
    IF i > Len(chains) THEN [filtered |-> filtered, calls |-> calls]
    ELSE LET c == chains[i]
             seen == Append(calls, Invoked("predicate", c.val, NoErr))
         IN  IF Predicate(predicate, c.val)
             THEN FilterChainsLoop(chains, predicate, i + 1, Append(filtered, c), seen)
             ELSE FilterChainsLoop(chains, predicate, i + 1, filtered, seen)
FilterChainsLoop(chains, predicate, i, filtered, calls) ==
    IF i > Len(chains) THEN [filtered |-> filtered, calls |-> calls]
    ELSE LET c == chains[i]
             seen == Append(calls, Invoked("predicate", c.val, NoErr))
         IN  IF c.err # NoErr
             THEN FilterChainsLoop(chains, predicate, i + 1, filtered, calls)
             ELSE IF Predicate(predicate, c.val)
             THEN FilterChainsLoop(chains, predicate, i + 1, Append(filtered, c), seen)
             ELSE FilterChainsLoop(chains, predicate, i + 1, filtered, seen)

FilterChains(chains, predicate) ==
    IF chains.nil \/ predicate = "nil" THEN Returns(chains, chains, <<>>)
    ELSE LET r == FilterChainsLoop(chains.elems, predicate, 1, <<>>, <<>>)
         IN  Returns(Appended(r.filtered), chains, r.calls)

(* for _, c := range chains of MapReduceChains, from element i on *)
RECURSIVE MapReduceChainsLoop(_, _, _, _, _, _, _)
MapReduceChainsLoop(chains, mapFn, reduceFn, i, result, first, calls) ==
    IF i > Len(chains) THEN [result |-> result, calls |-> calls]
    ELSE LET c == chains[i]
             mapped == MapFn(mapFn, c.val)
             seen == Append(calls, Invoked("mapFn", c.val, NoErr))
         IN  IF c.err # NoErr
             THEN MapReduceChainsLoop(chains, mapFn, reduceFn, i + 1, result, first, calls)
             ELSE IF first
             THEN MapReduceChainsLoop(chains, mapFn, reduceFn, i + 1, mapped, FALSE, seen)
             ELSE MapReduceChainsLoop(chains, mapFn, reduceFn, i + 1,
                                      ReduceFn(reduceFn, result, mapped), FALSE, seen)

MapReduceChains_FoldsZero(chains, mapFn, reduceFn, zero) ==
    IF chains.nil \/ mapFn = "nil" \/ reduceFn = "nil" THEN Returns(zero, chains, <<>>)
    ELSE LET r == MapReduceChainsLoop(chains.elems, mapFn, reduceFn, 1, zero, FALSE, <<>>)
         IN  Returns(r.result, chains, r.calls)
MapReduceChains(chains, mapFn, reduceFn, zero) ==
    IF chains.nil \/ mapFn = "nil" \/ reduceFn = "nil" THEN Returns(zero, chains, <<>>)
    ELSE LET r == MapReduceChainsLoop(chains.elems, mapFn, reduceFn, 1, ZeroR, TRUE, <<>>)
         IN  Returns(r.result, chains, r.calls)

(* An element of a slice of *Wrapper[T] is nil or points to w; a slice of  *)
(* Wrapper[T] has no nil element.                                          *)
NilElem == [nilw |-> TRUE, w |-> WrapperOf(Null, NoErr, "nil")]
Elem(w) == [nilw |-> FALSE, w |-> w]

(* for _, w := range wrappers of FilterWrappers, from element i on *)
RECURSIVE FilterWrappersLoop(_, _, _, _, _, _)
FilterWrappersLoop(wrappers, predicate, i, filtered, calls, hp) ==
    IF i > Len(wrappers) THEN [filtered |-> filtered, calls |-> calls]
    ELSE LET w == wrappers[i].w
             seen == Append(calls, Invoked("predicate", w.val, NoErr))
         IN  IF w.err # NoErr \/ w.val = Null
             THEN FilterWrappersLoop(wrappers, predicate, i + 1, filtered, calls, hp)
             ELSE IF Predicate(predicate, hp[w.val])
             THEN FilterWrappersLoop(wrappers, predicate, i + 1,
                                     Append(filtered, wrappers[i]), seen, hp)
             ELSE FilterWrappersLoop(wrappers, predicate, i + 1, filtered, seen, hp)

FilterWrappers(wrappers, predicate, hp) ==
    IF wrappers.nil \/ predicate = "nil" THEN WReturns(wrappers, wrappers, <<>>, hp)
    ELSE LET r == FilterWrappersLoop(wrappers.elems, predicate, 1, <<>>, <<>>, hp)
         IN  WReturns(Appended(r.filtered), wrappers, r.calls, hp)

(* for _, w := range wrappers of MapReduceWrappers, from element i on *)
RECURSIVE MapReduceWrappersLoop(_, _, _, _, _, _, _, _)
MapReduceWrappersLoop(wrappers, mapFn, reduceFn, i, result, first, calls, hp) ==
    IF i > Len(wrappers) THEN [result |-> result, calls |-> calls]
    ELSE LET w == wrappers[i].w
             mapped == MapFn(mapFn, hp[w.val])
             seen == Append(calls, Invoked("mapFn", w.val, NoErr))
         IN  IF wrappers[i].nilw \/ w.err # NoErr \/ w.val = Null
             THEN MapReduceWrappersLoop(wrappers, mapFn, reduceFn, i + 1, result, first,
                                        calls, hp)
             ELSE IF first
             THEN MapReduceWrappersLoop(wrappers, mapFn, reduceFn, i + 1, mapped, FALSE,
                                        seen, hp)
             ELSE MapReduceWrappersLoop(wrappers, mapFn, reduceFn, i + 1,
                                        ReduceFn(reduceFn, result, mapped), FALSE, seen, hp)

MapReduceWrappers(wrappers, mapFn, reduceFn, zero, hp) ==
    IF wrappers.nil \/ mapFn = "nil" \/ reduceFn = "nil"
    THEN WReturns(zero, wrappers, <<>>, hp)
    ELSE LET r == MapReduceWrappersLoop(wrappers.elems, mapFn, reduceFn, 1, ZeroR, TRUE,
                                        <<>>, hp)
         IN  WReturns(r.result, wrappers, r.calls, hp)

----------------------------------------------------------------------------
(* The caller *)

NoCall == [op |-> "none", kind |-> "Chain", recv |-> Wrap(ZeroT), fn |-> NilFn,
           e |-> NoErr, d |-> 0, out |-> Returns(Wrap(ZeroT), Wrap(ZeroT), <<>>)]

NoPipe == [on |-> FALSE, v |-> 0, steps |-> <<>>, calls |-> <<>>, done |-> FALSE,
           result |-> <<0, NoErr>>]

Init ==
    /\ kind = "Chain"
    /\ cur = Wrap(ZeroT)
    /\ heap = [h \in Cell |-> ZeroT]
    /\ last = NoCall
    /\ pipe = NoPipe

Idle == last.op = "none"

(* A call with receiver (or container argument) recv, which leaves the     *)
(* caller's own container as held and the heap as hp.                      *)
Called(op, recv, fn, e, d, out, held, hp) ==
    /\ Idle
    /\ last' = [op |-> op, kind |-> kind, recv |-> recv, fn |-> fn, e |-> e,
                d |-> d, out |-> out, pre |-> heap]
    /\ cur' = held
    /\ heap' = hp
    /\ UNCHANGED <<kind, pipe>>

(* the calls whose result is not a container the caller pipes further *)
Terminal == {"Result", "Unwrap", "IsSuccess", "IsFailure", "HasError", "Match",
             "FilterChains", "MapReduceChains", "FilterWrappers", "MapReduceWrappers"}

(* x = x.Op(...): the caller goes on with the result of the call; after a  *)
(* panic (recovered further up), or a call that yields no container, it    *)
(* still holds what it held.                                               *)
Resume ==
    /\ ~Idle
    /\ cur' = IF last.out.ret /\ last.op \notin Terminal THEN last.out.res ELSE cur
    /\ last' = NoCall
    /\ UNCHANGED <<kind, heap, pipe>>

DoWrap ==
    \E v \in Val :
        /\ Idle
        /\ kind' = "Chain"
        /\ cur' = Wrap(v)
        /\ UNCHANGED <<heap, last, pipe>>

(* a call on the held chain, whose storage it leaves as out.self *)
CCalled(op, fn, e, d, out) == Called(op, cur, fn, e, d, out, out.self, heap)

DoChainWithError ==
    /\ kind = "Chain"
    /\ \E e \in ErrArg :
        CCalled("WithError", NilFn, e, 0, ChainWithError(cur, e))

DoChainThen ==
    /\ kind = "Chain"
    /\ \E f \in ChainStepFns : CCalled("Then", f, NoErr, 0, ChainThen(cur, f))

DoChainMap ==
    /\ kind = "Chain"
    /\ \E f \in ChainMapFns : CCalled("Map", f, NoErr, 0, ChainMap(cur, f))

DoChainFilter ==
    /\ kind = "Chain"
    /\ \E pred \in PredFns, e \in ErrArg :
        CCalled("Filter", pred, e, 0, ChainFilter(cur, pred, e))

DoChainOrElse ==
    /\ kind = "Chain"
    /\ \E d \in Val : CCalled("OrElse", NilFn, NoErr, d, ChainOrElse(cur, d))

DoChainRecover ==
    /\ kind = "Chain"
    /\ \E fn \in ChainStepFns :
        CCalled("Recover", fn, NoErr, 0, ChainRecover(cur, fn))

(* Flatten(outer) of an outer chain built around the held one *)
DoChainFlatten ==
    /\ kind = "Chain"
    /\ \E e \in ErrArg :
        Called("Flatten", ChainOf(cur, e), NilFn, NoErr, 0,
               ChainFlatten(ChainOf(cur, e)), cur, heap)

DoChainBind ==
    /\ kind = "Chain"
    /\ \E f \in ChainBindFns : CCalled("Bind", f, NoErr, 0, ChainBind(cur, f))

DoChainApply ==
    /\ kind = "Chain"
    /\ \E f \in ChainMapFns, e \in ErrArg :
        CCalled("Apply", f, e, 0, ChainApply(cur, ChainOf(f, e)))

DoChainLiftM ==
    /\ kind = "Chain"
    /\ \E f \in ChainMapFns : CCalled("LiftM", f, NoErr, 0, ChainLiftM(cur, f))

(* c = Lift(v) *)
DoChainLift ==
    /\ kind = "Chain"
    /\ \E v \in Val :
        Called("Lift", cur, NilFn, NoErr, v, Returns(Lift(v), cur, <<>>), cur, heap)

(* c = LiftResult(fn) *)
DoLiftResult ==
    /\ kind = "Chain"
    /\ \E fn \in ChainStepFns :
        Called("LiftResult", cur, fn, NoErr, 0, LiftResult(fn), cur, heap)

(* a Match call on the held container, with its two callbacks *)
MatchCalled(success, failure, out, hp) ==
    /\ Idle
    /\ last' = [op |-> "Match", kind |-> kind, recv |-> cur, fn |-> success,
                fn2 |-> failure, e |-> NoErr, d |-> 0, out |-> out, pre |-> heap]
    /\ cur' = out.self
    /\ heap' = hp
    /\ UNCHANGED <<kind, pipe>>

DoChainMatch ==
    /\ kind = "Chain"
    /\ \E success \in MatchFns, failure \in MatchFns :
        MatchCalled(success, failure, ChainMatch(cur, success, failure), heap)

(* val, err := c.Result() *)
DoChainResult ==
    /\ kind = "Chain"
    /\ CCalled("Result", NilFn, NoErr, 0, Returns(ChainResult(cur), cur, <<>>))

DoChainUnwrap ==
    /\ kind = "Chain"
    /\ CCalled("Unwrap", NilFn, NoErr, 0, ChainUnwrap(cur))

DoChainIsSuccess ==
    /\ kind = "Chain"
    /\ CCalled("IsSuccess", NilFn, NoErr, 0, Returns(ChainIsSuccess(cur), cur, <<>>))

DoChainIsFailure ==
    /\ kind = "Chain"
    /\ CCalled("IsFailure", NilFn, NoErr, 0, Returns(ChainIsFailure(cur), cur, <<>>))

DoChainHasError ==
    /\ kind = "Chain"
    /\ CCalled("HasError", NilFn, NoErr, 0, Returns(ChainHasError(cur), cur, <<>>))

(* ms := &MyStruct{Val: v}; New(ms, errHandler), or New(nil, errHandler) *)
DoNew ==
    \E h \in Handle, v \in Val, k \in Hooks :
        /\ Idle
        /\ kind' = "Wrapper"
        /\ cur' = New(h, k)
        /\ heap' = IF h # Null THEN [heap EXCEPT ![h] = v] ELSE heap
        /\ UNCHANGED <<last, pipe>>

(* a call on the held wrapper, whose storage it leaves as out.self *)
WCalled(op, fn, e, d, out) == Called(op, cur, fn, e, d, out, out.self, out.hp)

DoWrapperWithError ==
    /\ kind = "Wrapper"
    /\ \E e \in ErrArg :
        /\ WCalled("WithError", NilFn, e, 0, WrapperWithError(cur, e, heap))

DoWrapperThen ==
    /\ kind = "Wrapper"
    /\ \E fn \in WrapperStepFns :
        WCalled("Then", fn, NoErr, 0, WrapperThen(cur, fn, heap))

DoWrapperMap ==
    /\ kind = "Wrapper"
    /\ \E f \in WrapperMapFns : WCalled("Map", f, NoErr, 0, WrapperMap(cur, f, heap))

DoWrapperFlatMap ==
    /\ kind = "Wrapper"
    /\ \E f \in WrapperBindFns :
        WCalled("FlatMap", f, NoErr, 0, WrapperFlatMap(cur, f, heap))

DoWrapperOrElse ==
    /\ kind = "Wrapper"
    /\ \E d \in Handle : WCalled("OrElse", NilFn, NoErr, d, WrapperOrElse(cur, d, heap))

DoWrapperRecover ==
    /\ kind = "Wrapper"
    /\ \E fn \in ProducerFns :
        WCalled("Recover", fn, NoErr, 0, WrapperRecover(cur, fn, heap))

(* Flatten(outer) of an outer wrapper built around the held one, or around nil *)
DoWrapperFlatten ==
    /\ kind = "Wrapper"
    /\ \E n \in BOOLEAN, e \in FnErr, k \in Hooks :
        LET outer == WrapperOf([null |-> n, w |-> cur], e, k)
        IN  Called("Flatten", outer, NilFn, NoErr, 0, WrapperFlatten(outer, heap),
                   cur, heap)

DoWrapperBind ==
    /\ kind = "Wrapper"
    /\ \E f \in WrapperBindFns : WCalled("Bind", f, NoErr, 0, WrapperBind(cur, f, heap))

DoWrapperApply ==
    /\ kind = "Wrapper"
    /\ \E f \in WrapperStepFns \cup {NilFnPtr}, e \in FnErr :
        WCalled("Apply", f, e, 0, WrapperApply(cur, WrapperOf(f, e, "identity"), heap))

DoWrapperLiftM ==
    /\ kind = "Wrapper"
    /\ \E f \in WrapperLiftFns :
        WCalled("LiftM", f, NoErr, 0, WrapperLiftM(cur, f, heap))

DoFlatMapU ==
    /\ kind = "Wrapper"
    /\ \E f \in WrapperBindFns :
        WCalled("FlatMapU", f, NoErr, 0, FlatMapU(cur, f, heap))

(* w = *Lift(v, errHandler) *)
DoWrapperLift ==
    /\ kind = "Wrapper"
    /\ \E h \in Handle, k \in Hooks :
        Called("Lift", cur, NilFn, NoErr, h, WReturns(WrapperLift(h, k), cur, <<>>, heap),
               cur, heap)

DoWrapperMatch ==
    /\ kind = "Wrapper"
    /\ \E success \in WrapperMapFns, failure \in MatchFns :
        MatchCalled(success, failure, WrapperMatch(cur, success, failure, heap),
                    WrapperMatch(cur, success, failure, heap).hp)

(* val, err := w.Result() *)
DoWrapperResult ==
    /\ kind = "Wrapper"
    /\ WCalled("Result", NilFn, NoErr, 0, WReturns(WrapperResult(cur), cur, <<>>, heap))

DoWrapperUnwrap ==
    /\ kind = "Wrapper"
    /\ WCalled("Unwrap", NilFn, NoErr, 0, WrapperUnwrap(cur, heap))

DoWrapperIsSuccess ==
    /\ kind = "Wrapper"
    /\ WCalled("IsSuccess", NilFn, NoErr, 0,
               WReturns(WrapperIsSuccess(cur), cur, <<>>, heap))

DoWrapperIsFailure ==
    /\ kind = "Wrapper"
    /\ WCalled("IsFailure", NilFn, NoErr, 0,
               WReturns(WrapperIsFailure(cur), cur, <<>>, heap))

DoWrapperHasError ==
    /\ kind = "Wrapper"
    /\ WCalled("HasError", NilFn, NoErr, 0,
               WReturns(WrapperHasError(cur), cur, <<>>, heap))

Next ==
    \/ DoWrap
    \/ DoChainWithError
    \/ DoChainThen
    \/ DoChainMap
    \/ DoChainFilter
    \/ DoChainOrElse
    \/ DoChainRecover
    \/ DoChainFlatten
    \/ DoChainBind
    \/ DoChainApply
    \/ DoChainLiftM
    \/ DoChainLift
    \/ DoLiftResult
    \/ DoChainMatch
    \/ DoChainResult
    \/ DoChainUnwrap
    \/ DoChainIsSuccess
    \/ DoChainIsFailure
    \/ DoChainHasError
    \/ DoNew
    \/ DoWrapperWithError
    \/ DoWrapperThen
    \/ DoWrapperMap
    \/ DoWrapperFlatMap
    \/ DoWrapperOrElse
    \/ DoWrapperRecover
    \/ DoWrapperFlatten
    \/ DoWrapperBind
    \/ DoWrapperApply
    \/ DoWrapperLiftM
    \/ DoFlatMapU
    \/ DoWrapperLift
    \/ DoWrapperMatch
    \/ DoWrapperResult
    \/ DoWrapperUnwrap
    \/ DoWrapperIsSuccess
    \/ DoWrapperIsFailure
    \/ DoWrapperHasError
    \/ Resume

Spec == Init /\ [][Next]_vars

----------------------------------------------------------------------------
(* Wrap(v).Then(f1)...Then(fn).Result() with the step functions of the     *)
(* tests                                                                   *)

StepNames == {"AddOne", "MultiplyTwo", "FailIfThree", "Forced"}

(* what step function name does when called with v *)
StepFn(name, v) ==
    CASE name = "AddOne" -> RetFn(v + 1, NoErr)
      [] name = "MultiplyTwo" -> RetFn(v * 2, NoErr)
      [] name = "FailIfThree" ->
            IF v = 3 THEN RetFn(v, NewError("val cannot be 3")) ELSE RetFn(v, NoErr)
      [] name = "Forced" -> RetFn(3, NewError("forced error"))

PipeWrap ==
    \E v \in 0..MaxPipeVal :
        /\ Idle
        /\ ~pipe.on \/ pipe.done
        /\ kind' = "Chain"
        /\ cur' = Wrap(v)
        /\ pipe' = [NoPipe EXCEPT !.on = TRUE, !.v = v]
        /\ UNCHANGED <<heap, last>>

PipeThen ==
    \E name \in StepNames :
        /\ pipe.on /\ ~pipe.done /\ Len(pipe.steps) < MaxSteps
        /\ LET out == ChainThen(cur, StepFn(name, cur.val))
           IN  /\ cur' = out.res
               /\ pipe' = [pipe EXCEPT !.steps = Append(@, name),
                                       !.calls = IF out.calls # <<>>
                                                 THEN Append(@, name) ELSE @]
        /\ UNCHANGED <<kind, heap, last>>

PipeResult ==
    /\ pipe.on /\ ~pipe.done
    /\ pipe' = [pipe EXCEPT !.done = TRUE, !.result = ChainResult(cur)]
    /\ UNCHANGED <<kind, cur, heap, last>>

NextPipe ==
    \/ PipeWrap
    \/ PipeThen
    \/ PipeResult

SpecPipe == Init /\ [][NextPipe]_vars

----------------------------------------------------------------------------
(* A caller that builds a slice of containers and hands it to the          *)
(* collection combinators; cur is the slice.                               *)

InitSeq ==
    /\ kind = "Chain"
    /\ cur = NilSlice
    /\ heap = [h \in Cell |-> h % (MaxVal + 1)]
    /\ last = NoCall
    /\ pipe = NoPipe

(* var xs []Chain[T], or xs := []Chain[T]{}; likewise of wrappers *)
SeqMake ==
    \E k \in {"Chain", "Wrapper"}, n \in BOOLEAN :
        /\ Idle
        /\ kind' = k
        /\ cur' = IF n THEN NilSlice ELSE SliceOf(<<>>)
        /\ UNCHANGED <<heap, last, pipe>>

SeqAppendChain ==
    \E v \in Val, e \in FnErr :
        /\ Idle
        /\ kind = "Chain"
        /\ Len(cur.elems) < MaxLen
        /\ cur' = SliceOf(Append(cur.elems, ChainOf(v, e)))
        /\ UNCHANGED <<kind, heap, last, pipe>>

SeqAppendWrapper ==
    \E el \in {NilElem} \cup {Elem(WrapperOf(h, e, "nil")) : h \in Handle, e \in FnErr} :
        /\ Idle
        /\ kind = "Wrapper"
        /\ Len(cur.elems) < MaxLen
        /\ cur' = SliceOf(Append(cur.elems, el))
        /\ UNCHANGED <<kind, heap, last, pipe>>

SeqCalled(op, fn, fn2, d, out) ==
    /\ Idle
    /\ last' = [op |-> op, kind |-> kind, recv |-> cur, fn |-> fn, fn2 |-> fn2,
                e |-> NoErr, d |-> d, out |-> out, pre |-> heap]
    /\ cur' = out.self
    /\ UNCHANGED <<kind, heap, pipe>>

DoFilterChains ==
    /\ kind = "Chain"
    /\ \E predicate \in PredNames :
        SeqCalled("FilterChains", predicate, "nil", 0, FilterChains(cur, predicate))

DoMapReduceChains ==
    /\ kind = "Chain"
    /\ \E mapFn \in MapFnNames, reduceFn \in ReduceFnNames, zero \in ZeroArgs :
        SeqCalled("MapReduceChains", mapFn, reduceFn, zero,
                  MapReduceChains(cur, mapFn, reduceFn, zero))

(* the slice of Wrapper[T] values has no nil element *)
DoFilterWrappers ==
    /\ kind = "Wrapper"
    /\ \A i \in 1..Len(cur.elems) : ~cur.elems[i].nilw
    /\ \E predicate \in PredNames :
        SeqCalled("FilterWrappers", predicate, "nil", 0,
                  FilterWrappers(cur, predicate, heap))

DoMapReduceWrappers ==
    /\ kind = "Wrapper"
    /\ \E mapFn \in MapFnNames, reduceFn \in ReduceFnNames, zero \in ZeroArgs :
        SeqCalled("MapReduceWrappers", mapFn, reduceFn, zero,
                  MapReduceWrappers(cur, mapFn, reduceFn, zero, heap))

NextSeq ==
    \/ SeqMake
    \/ SeqAppendChain
    \/ SeqAppendWrapper
    \/ DoFilterChains
    \/ DoMapReduceChains
    \/ DoFilterWrappers
    \/ DoMapReduceWrappers
    \/ Resume

SpecSeq == InitSeq /\ [][NextSeq]_vars

----------------------------------------------------------------------------
(* Properties *)

Made(k, ops) == ~Idle /\ last.kind = k /\ last.op \in ops
RecvFailed == last.recv.err # NoErr
Res == last.out.res

(* C1: on a container that is already Failed, Chain Then/Map/Filter and    *)
(* Wrapper Then/Map/FlatMap return normally a container equal to the       *)
(* receiver (value, error, and hook for the Wrapper), and invoke neither   *)
(* the function, the predicate nor the error handler.                      *)
C1_ShortCircuit ==
    (RecvFailed /\ (Made("Chain", {"Then", "Map", "Filter"})
                    \/ Made("Wrapper", {"Then", "Map", "FlatMap"})))
        => /\ last.out.ret
           /\ Res = last.recv
           /\ last.out.calls = <<>>

C1_Witness ==
    /\ Made("Wrapper", {"Then"})
    /\ RecvFailed
    /\ last.recv.errHandler = "rewrite"
    /\ last.fn.k = "ret" /\ last.fn.err # NoErr /\ last.fn.val # last.recv.val

(* the claim's reading of a pipeline: the steps run in order from v until  *)
(* the first one that returns an error; <<value, error, steps invoked>>    *)
RECURSIVE Piped(_, _, _)
Piped(v, steps, i) ==
    IF i > Len(steps) THEN <<v, NoErr, SubSeq(steps, 1, Len(steps))>>
    ELSE LET r == StepFn(steps[i], v)
         IN  IF r.err # NoErr THEN <<r.val, r.err, SubSeq(steps, 1, i)>>
             ELSE Piped(r.val, steps, i + 1)

(* C2: Wrap(v).Then(f1)...Then(fn).Result() with non-nil steps is          *)
(* (fn(...f1(v)...), nil) when no step returns an error, and otherwise the *)
(* (value, error) pair returned by the first failing step fk, with none of *)
(* the steps after fk invoked.                                             *)
C2_Pipeline ==
    pipe.done =>
        /\ pipe.result = <<Piped(pipe.v, pipe.steps, 1)[1], Piped(pipe.v, pipe.steps, 1)[2]>>
        /\ pipe.calls = Piped(pipe.v, pipe.steps, 1)[3]

C2_Witness ==
    /\ pipe.done
    /\ pipe.v = 2
    /\ pipe.steps = <<"AddOne", "FailIfThree", "MultiplyTwo">>
    /\ pipe.result = <<3, NewError("val cannot be 3")>>
    /\ pipe.calls = <<"AddOne", "FailIfThree">>

ChainOps == {"Then", "Map", "Filter", "OrElse", "Recover", "WithError"}

(* C3 as claimed: every Chain obtained from a Failed Chain by Then, Map,   *)
(* Filter, OrElse, Recover or WithError, with any arguments, is Failed.    *)
C3_Original ==
    (Made("Chain", ChainOps) /\ RecvFailed /\ last.out.ret)
        => Res.err # NoErr

(* C3, amended: every Chain obtained from a Failed Chain by Then, Map,     *)
(* Filter, OrElse, Recover, or by WithError with a non-nil error, is       *)
(* Failed, and each of these calls returns.                                *)
C3_FailedStaysFailed ==
    (Made("Chain", ChainOps) /\ RecvFailed
     /\ ~(last.op = "WithError" /\ last.e = NoErr))
        => last.out.ret /\ Res.err # NoErr

C3_Witness ==
    /\ Made("Chain", {"OrElse"})
    /\ RecvFailed
    /\ last.d # last.recv.val

(* C4: Wrapper.Then on a Success wrapper whose step returns the error e    *)
(* gives: with no handler, Failed with e and the receiver's handle; with a *)
(* handler returning a non-nil e2, Failed with e2 and the receiver's       *)
(* handle; with a handler returning nil, the receiver unchanged.  When the *)
(* step returns no error the result is Success with the returned handle.   *)
C4_ThenHandler ==
    (Made("Wrapper", {"Then"}) /\ ~RecvFailed /\ last.fn.k = "ret")
        => /\ last.out.ret
           /\ Res.errHandler = last.recv.errHandler
           /\ IF last.fn.err = NoErr
              THEN Res.val = last.fn.val /\ Res.err = NoErr
              ELSE CASE last.recv.errHandler \in {"nil", "identity"} ->
                            Res.val = last.recv.val /\ Res.err = last.fn.err
                     [] last.recv.errHandler = "rewrite" ->
                            /\ Res.val = last.recv.val
                            /\ Res.err = NewError("handled: " \o last.fn.err.msg)
                     [] last.recv.errHandler = "suppress" ->
                            Res = last.recv

C4_Witness ==
    /\ Made("Wrapper", {"Then"})
    /\ ~RecvFailed
    /\ last.recv.errHandler = "suppress"
    /\ last.recv.val # Null
    /\ last.fn.k = "ret" /\ last.fn.err # NoErr /\ last.fn.val = Null

(* C5: OrElse(d) on a Failed container: the Chain's gives value d with the *)
(* same error, the Wrapper's gives handle d with no error and the same     *)
(* handler; on a Success container both return the receiver unchanged.     *)
C5_OrElse ==
    /\ Made("Chain", {"OrElse"}) =>
        /\ last.out.ret
        /\ Res = IF RecvFailed THEN ChainOf(last.d, last.recv.err) ELSE last.recv
    /\ Made("Wrapper", {"OrElse"}) =>
        /\ last.out.ret
        /\ Res = IF RecvFailed THEN WrapperOf(last.d, NoErr, last.recv.errHandler)
                 ELSE last.recv

C5_Witness ==
    /\ Made("Wrapper", {"OrElse"})
    /\ RecvFailed
    /\ last.recv.errHandler # "nil"
    /\ last.d # last.recv.val

(* C6: Recover(fn), either kind: on a Failed container or with a nil fn it *)
(* returns the receiver unchanged and does not invoke fn; on a Success     *)
(* container, if fn panics with payload p the call returns a Failed        *)
(* container whose error message is "panic recovered: " followed by p and  *)
(* whose value is the default (zero T, nil handle); if fn returns (v, e)   *)
(* the result holds v and e.                                               *)
C6_Recover ==
    (Made("Chain", {"Recover"}) \/ Made("Wrapper", {"Recover"}))
        => /\ last.out.ret
           /\ IF RecvFailed \/ last.fn.k = "nil"
              THEN Res = last.recv /\ last.out.calls = <<>>
              ELSE IF last.fn.k = "panic"
              THEN /\ Res.val = 0
                   /\ last.fn.p = StrPayload("ouch")
                        => Res.err = NewError("panic recovered: ouch")
                   /\ last.fn.p = IntPayload(7)
                        => Res.err = NewError("panic recovered: 7")
                   /\ Res.err.isErr
                   /\ Len(last.out.calls) = 1
              ELSE /\ Res.val = last.fn.val
                   /\ Res.err = last.fn.err
                   /\ Len(last.out.calls) = 1

C6_Witness ==
    /\ Made("Wrapper", {"Recover"})
    /\ ~RecvFailed
    /\ last.recv.val # Null
    /\ last.fn.k = "panic" /\ last.fn.p = IntPayload(7)

(* C7: every Wrapper returned by Then, Map, OrElse, Recover, Flatten,      *)
(* Bind, Apply, LiftM or FlatMapU, on every path, carries the error        *)
(* handler of the wrapper it was derived from.                             *)
C7_HandlerThreaded ==
    (Made("Wrapper", {"Then", "Map", "OrElse", "Recover", "Flatten", "Bind",
                      "Apply", "LiftM", "FlatMapU"}) /\ last.out.ret)
        => Res.errHandler = last.recv.errHandler

(* C8: on a Success container of either kind, a nil function passed to     *)
(* Then, Map, Filter (the predicate), Recover, FlatMap, Bind, Apply (the   *)
(* function payload) or LiftM makes the call return normally, with no      *)
(* panic and no error set.                                                 *)
C8_NilFnSkipped ==
    (/\ Made("Chain", {"Then", "Map", "Filter", "Recover", "Bind", "Apply", "LiftM"})
        \/ Made("Wrapper", {"Then", "Map", "Recover", "FlatMap", "Bind", "Apply", "LiftM"})
     /\ ~RecvFailed
     /\ last.op = "Apply" => last.e = NoErr
     /\ last.fn.k \in {"nil", "nilptr"})
        => last.out.ret /\ Res.err = NoErr

(* C9: Then(nil) on a container of either kind, in any state, returns      *)
(* normally a container with the receiver's value and error, so any number *)
(* of Then(nil) in a row leaves them as they were.                         *)
C9_ThenNil ==
    ((Made("Chain", {"Then"}) \/ Made("Wrapper", {"Then"})) /\ last.fn.k = "nil")
        => /\ last.out.ret
           /\ Res.val = last.recv.val /\ Res.err = last.recv.err
           /\ last.out.calls = <<>>
           /\ last.out.self = last.recv

C9_Witness ==
    /\ Made("Wrapper", {"Then"})
    /\ last.fn.k = "nil"
    /\ ~RecvFailed
    /\ last.recv.val # Null

(* C10: WithError(e), either kind, returns a container with the error e    *)
(* and the receiver's value, and leaves the container it was called on     *)
(* unchanged.                                                              *)
C10_WithErrorCopies ==
    (Made("Chain", {"WithError"}) \/ Made("Wrapper", {"WithError"}))
        => /\ last.out.ret
           /\ Res.err = last.e /\ Res.val = last.recv.val
           /\ last.out.self = last.recv

(* C11: a transform never changes the Chain it is called on: after Then,   *)
(* Map, Filter, OrElse, Recover, WithError, Bind or Apply on a retained    *)
(* chain c, whether the call returned or panicked, c.Result() is the       *)
(* (value, error) it was before, so a Then from c gives what it would have *)
(* given before the call.                                                  *)
C11_ChainRetained ==
    Made("Chain", {"Then", "Map", "Filter", "OrElse", "Recover", "WithError",
                   "Bind", "Apply"})
        => /\ ChainResult(cur) = ChainResult(last.recv)
           /\ last.out.self = last.recv
           /\ \A f \in ChainStepFns : ChainThen(cur, f) = ChainThen(last.recv, f)

C11_Witness ==
    /\ Made("Chain", {"WithError"})
    /\ ~RecvFailed
    /\ last.e # NoErr
    /\ last.out.ret /\ Res.err = last.e
    /\ ChainResult(cur) = <<last.recv.val, NoErr>>

(* C12: Flatten, either kind: of a Failed outer it returns a container     *)
(* with the outer's error whatever the inner's state; of a Success outer   *)
(* holding a Failed inner, one with the inner's error; of a Success outer  *)
(* holding a Success inner with value v, a Success container with value v, *)
(* which for the Wrapper carries the outer's handler.                      *)
C12_FlattenLaws ==
    /\ Made("Chain", {"Flatten"}) =>
        /\ last.out.ret
        /\ IF last.recv.err # NoErr THEN Res.err = last.recv.err
           ELSE IF last.recv.val.err # NoErr THEN Res.err = last.recv.val.err
           ELSE Res = ChainOf(last.recv.val.val, NoErr)
    /\ Made("Wrapper", {"Flatten"}) =>
        IF last.recv.err # NoErr THEN last.out.ret /\ Res.err = last.recv.err
        ELSE ~last.recv.val.null =>
                /\ last.out.ret
                /\ IF last.recv.val.w.err # NoErr THEN Res.err = last.recv.val.w.err
                   ELSE /\ Res.val = last.recv.val.w.val
                        /\ Res.err = NoErr
                        /\ Res.errHandler = last.recv.errHandler

C12_Witness ==
    /\ Made("Chain", {"Flatten"})
    /\ last.recv.err = NewError("forced error")
    /\ last.recv.val.err = NewError("val cannot be 3")
    /\ Res.err = NewError("forced error")

(* the containers of the slice handed to a collection combinator that it   *)
(* is to take into account, the values they hold, and a left fold          *)
ChainAlive(c) == c.err = NoErr
WrapperAlive(el) == ~el.nilw /\ el.w.err = NoErr /\ el.w.val # Null
Survivors ==
    IF last.kind = "Chain" THEN SelectSeq(last.recv.elems, ChainAlive)
    ELSE SelectSeq(last.recv.elems, WrapperAlive)
SurvivorVal(x) == IF last.kind = "Chain" THEN x.val ELSE heap[x.w.val]
SurvivorArg(x) == IF last.kind = "Chain" THEN x.val ELSE x.w.val
Mapped == [i \in 1..Len(Survivors) |-> MapFn(last.fn, SurvivorVal(Survivors[i]))]
RECURSIVE FoldLeft(_, _, _, _)
FoldLeft(name, acc, xs, i) ==
    IF i > Len(xs) THEN acc ELSE FoldLeft(name, ReduceFn(name, acc, xs[i]), xs, i + 1)

Kept(x) ==
    IF last.kind = "Chain" THEN ChainAlive(x) /\ Predicate(last.fn, x.val)
    ELSE WrapperAlive(x) /\ Predicate(last.fn, heap[x.w.val])

FnOps == {"Then", "Map", "Filter", "Recover", "FlatMap", "Bind", "Apply", "LiftM",
          "FlatMapU"}

(* C15: when the function handed to Then or Map, of either kind, panics,   *)
(* the call does not return and the caller sees that panic; among the      *)
(* calls that run a caller-supplied function, Recover alone returns when   *)
(* the function panics, with a Failed container.                           *)
C15_FaultsPropagate ==
    (/\ ~Idle
     /\ last.op \in FnOps
     /\ ~RecvFailed
     /\ last.op = "Apply" => last.e = NoErr
     /\ last.fn.k = "panic")
        => IF last.op = "Recover"
           THEN last.out.ret /\ Res.err # NoErr
           ELSE /\ ~last.out.ret
                /\ last.out.fault = last.fn.p
                /\ Len(last.out.calls) = 1

C15_Witness ==
    /\ Made("Wrapper", {"Map"})
    /\ ~RecvFailed
    /\ last.recv.val # Null
    /\ last.fn.k = "panic" /\ last.fn.p = StrPayload("ouch")
    /\ ~last.out.ret

(* C16: Bind(c, f), either kind: on a Failed c it returns a Failed         *)
(* container with c's error and the default payload (zero value, nil       *)
(* handle) without calling f; on a Success c with a nil f, a container     *)
(* with the default payload and no error; otherwise it calls f once with   *)
(* c's value and returns exactly the container f returned.                 *)
C16_Bind ==
    ((Made("Chain", {"Bind"}) \/ Made("Wrapper", {"Bind"})) /\ last.fn.k # "panic")
        => /\ last.out.ret
           /\ IF RecvFailed
              THEN Res.val = 0 /\ Res.err = last.recv.err /\ last.out.calls = <<>>
              ELSE IF last.fn.k = "nil"
              THEN Res.val = 0 /\ Res.err = NoErr /\ last.out.calls = <<>>
              ELSE /\ Res = IF last.kind = "Chain" THEN ChainOf(last.fn.val, last.fn.err)
                            ELSE WrapperOf(last.fn.val, last.fn.err, last.fn.hook)
                   /\ last.out.calls = <<Invoked("f", last.recv.val, NoErr)>>

C16_Witness ==
    /\ Made("Chain", {"Bind"})
    /\ RecvFailed
    /\ last.recv.val # 0
    /\ last.fn.k = "ret" /\ last.fn.err = NoErr

(* C17: Apply(c, fc), either kind: a Failed c gives a container with c's   *)
(* error even when fc is Failed too; otherwise a Failed fc gives one with  *)
(* fc's error; in both cases the function is not called.  With neither     *)
(* Failed, a nil payload of fc (the Chain's nil function, the Wrapper's    *)
(* nil handle) gives a container with the default payload and no error,    *)
(* and a function that returns gives a container holding what it returned  *)
(* for c's value, after one call.                                          *)
C17_Apply ==
    (/\ Made("Chain", {"Apply"}) \/ Made("Wrapper", {"Apply"})
     /\ last.fn.k # "panic"
     /\ ~(last.kind = "Wrapper" /\ last.fn.k = "nil"))
        => /\ last.out.ret
           /\ IF RecvFailed
              THEN Res.err = last.recv.err /\ last.out.calls = <<>>
              ELSE IF last.e # NoErr
              THEN Res.err = last.e /\ last.out.calls = <<>>
              ELSE IF last.fn.k \in {"nil", "nilptr"}
              THEN Res.val = 0 /\ Res.err = NoErr /\ last.out.calls = <<>>
              ELSE /\ Res.val = last.fn.val
                   /\ Res.err = IF last.kind = "Chain" THEN NoErr ELSE last.fn.err
                   /\ last.out.calls = <<Invoked("f", last.recv.val, NoErr)>>

C17_Witness ==
    /\ Made("Chain", {"Apply"})
    /\ last.recv.err = NewError("val cannot be 3")
    /\ last.e = NewError("forced error")
    /\ last.fn.k = "ret"
    /\ Res.err = NewError("val cannot be 3")

(* C18 as claimed: Chain.Filter(pred, e) on a Success chain returns the    *)
(* chain unchanged when pred(value) is true, and when it is false a Failed *)
(* chain with the same value and the error e, for every e.                 *)
C18_Original ==
    (Made("Chain", {"Filter"}) /\ ~RecvFailed /\ last.fn.k = "ret")
        => /\ last.out.ret
           /\ IF last.fn.b THEN Res = last.recv
              ELSE Res.val = last.recv.val /\ Res.err = last.e /\ Res.err # NoErr

(* C18, amended: Chain.Filter(pred, e) on a Success chain returns the      *)
(* chain unchanged when pred(value) is true, and when it is false a chain  *)
(* with the same value and its error set to e: Failed when e is non-nil,   *)
(* and the Success chain it was when e is nil.  pred is called once.       *)
C18_Filter ==
    (Made("Chain", {"Filter"}) /\ ~RecvFailed /\ last.fn.k = "ret")
        => /\ last.out.ret
           /\ last.out.calls = <<Invoked("pred", last.recv.val, NoErr)>>
           /\ IF last.fn.b THEN Res = last.recv
              ELSE /\ Res = ChainOf(last.recv.val, last.e)
                   /\ last.e # NoErr => Res.err # NoErr
                   /\ last.e = NoErr => Res = last.recv

C18_Witness ==
    /\ Made("Chain", {"Filter"})
    /\ ~RecvFailed
    /\ last.recv.val # 0
    /\ last.fn.k = "ret" /\ ~last.fn.b
    /\ last.e = NewError("val cannot be 3")

(* the receiver's IsSuccess(), IsFailure() and HasError() *)
RecvIsSuccess ==
    IF last.kind = "Chain" THEN ChainIsSuccess(last.recv) ELSE WrapperIsSuccess(last.recv)
RecvIsFailure ==
    IF last.kind = "Chain" THEN ChainIsFailure(last.recv) ELSE WrapperIsFailure(last.recv)
RecvHasError ==
    IF last.kind = "Chain" THEN ChainHasError(last.recv) ELSE WrapperHasError(last.recv)

(* C19: Unwrap, either kind, returns the value (the handle) of a Success   *)
(* container, and on a Failed one panics with the message "called Unwrap   *)
(* on error: " followed by the error's text; it panics exactly when        *)
(* IsFailure() is true, and IsSuccess() = not IsFailure() = (HasError() is *)
(* nil).                                                                   *)
C19_Unwrap ==
    /\ (Made("Chain", {"Unwrap"}) \/ Made("Wrapper", {"Unwrap"})) =>
        /\ IF RecvFailed
           THEN /\ ~last.out.ret
                /\ last.out.fault.t = "str"
                /\ last.out.fault.s = "called Unwrap on error: " \o last.recv.err.msg
                /\ last.recv.err = NewError("forced error")
                    => last.out.fault.s = "called Unwrap on error: forced error"
           ELSE last.out.ret /\ Res = last.recv.val
        /\ ~last.out.ret <=> RecvIsFailure
        /\ RecvIsSuccess <=> ~RecvIsFailure
        /\ RecvIsSuccess <=> (RecvHasError = NoErr)
    /\ (~Idle /\ last.op = "IsSuccess") => (last.out.ret /\ Res = ~RecvFailed)
    /\ (~Idle /\ last.op = "IsFailure") => (last.out.ret /\ Res = RecvFailed)
    /\ (~Idle /\ last.op = "HasError") => (last.out.ret /\ Res = last.recv.err)

C19_Witness ==
    /\ Made("Wrapper", {"Unwrap"})
    /\ last.recv.err = NewError("forced error")
    /\ last.recv.val # Null
    /\ ~last.out.ret

(* the callback of a Match call that matches the receiver's state, and the *)
(* one call of it                                                          *)
Matching == IF RecvFailed THEN last.fn2 ELSE last.fn
MatchingCall ==
    IF RecvFailed THEN Invoked("failure", 0, last.recv.err)
    ELSE Invoked("success", last.recv.val, NoErr)

(* C20: Match(onSuccess, onFailure), either kind, calls at most one        *)
(* callback: on a Success container onSuccess alone, once, with the value; *)
(* on a Failed one onFailure alone, once, with the error; a nil callback   *)
(* for the container's state is skipped and the call returns; the          *)
(* container is as it was after the call.                                  *)
C20_Match ==
    (Made("Chain", {"Match"}) \/ Made("Wrapper", {"Match"}))
        => /\ Len(last.out.calls) <= 1
           /\ last.out.self = last.recv
           /\ cur = last.recv
           /\ IF Matching.k = "nil" THEN last.out.ret /\ last.out.calls = <<>>
              ELSE /\ last.out.calls = <<MatchingCall>>
                   /\ Matching.k = "ret" => last.out.ret

C20_Witness ==
    /\ Made("Chain", {"Match"})
    /\ RecvFailed
    /\ last.fn.k = "ret" /\ last.fn2.k = "ret"
    /\ last.out.calls = <<Invoked("failure", 0, last.recv.err)>>

IsHandlerCall(c) == c.fn = "errHandler"

(* C21: on a Success wrapper with a non-nil error handler, whenever the    *)
(* function handed to Then, to Recover, or wrapped in the argument of      *)
(* Apply returns a non-nil error, the handler is called exactly once with  *)
(* that error and the returned wrapper's error is what the handler         *)
(* returned; the handler is not called when the function returns no error. *)
C21_HookInvoked ==
    (/\ Made("Wrapper", {"Then", "Recover", "Apply"})
     /\ ~RecvFailed
     /\ last.recv.errHandler # "nil"
     /\ last.op = "Apply" => last.e = NoErr
     /\ last.fn.k = "ret")
        => /\ last.out.ret
           /\ IF last.fn.err # NoErr
              THEN /\ SelectSeq(last.out.calls, IsHandlerCall)
                        = <<Invoked("errHandler", 0, last.fn.err)>>
                   /\ Res.err = HandlerResult(last.recv.errHandler, last.fn.err)
              ELSE SelectSeq(last.out.calls, IsHandlerCall) = <<>>

(* C22: when the step of a Wrapper.Then on a Success wrapper returns an    *)
(* error that the handler suppresses, the returned wrapper is Success with *)
(* the receiver's handle, and the value behind that handle is the value it *)
(* was before the step ran, even when the step wrote through the handle    *)
(* before returning its error.                                             *)
C22_SuppressedStepDiscarded ==
    (/\ Made("Wrapper", {"Then"})
     /\ ~RecvFailed
     /\ last.recv.errHandler = "suppress"
     /\ last.fn.k = "ret" /\ last.fn.err # NoErr)
        => /\ last.out.ret
           /\ Res.err = NoErr
           /\ Res.val = last.recv.val
           /\ Res.val # Null => heap[Res.val] = last.pre[Res.val]

(* every container handed to the call just made is Success: the receiver,  *)
(* for Flatten the outer and the inner, for Apply the container and the    *)
(* one holding the function; Lift and LiftResult are handed none           *)
AllGivenSuccess ==
    /\ ~Idle
    /\ CASE last.op \in {"Lift", "LiftResult"} -> TRUE
         [] last.op = "Flatten" ->
                /\ ~RecvFailed
                /\ IF last.kind = "Chain" THEN last.recv.val.err = NoErr
                   ELSE last.recv.val.null \/ last.recv.val.w.err = NoErr
         [] last.op = "Apply" -> ~RecvFailed /\ last.e = NoErr
         [] OTHER -> ~RecvFailed

(* C23 as claimed: Map, OrElse, Match, Flatten, FlatMap, FlatMapU, Lift,   *)
(* LiftResult and LiftM never return a Failed container when every         *)
(* container they are given is Success.                                    *)
C23_Original ==
    (/\ AllGivenSuccess
     /\ last.op \in {"Map", "OrElse", "Match", "Flatten", "FlatMap", "FlatMapU", "Lift",
                     "LiftResult", "LiftM"}
     /\ last.out.ret)
        => Res.err = NoErr

(* C23, amended: Wrap, New and Lift construct Success containers; Map,     *)
(* OrElse, Match, Flatten, Lift and LiftM never return a Failed container  *)
(* when every container they are given is Success; FlatMap, FlatMapU and   *)
(* LiftResult return a Failed one from Success inputs exactly when their   *)
(* function returns a Failed container or an error, and then with that     *)
(* error.                                                                  *)
C23_StateMachine ==
    /\ \A v \in Val : Wrap(v).err = NoErr /\ Lift(v).err = NoErr
    /\ \A h \in Handle, k \in Hooks :
            New(h, k).err = NoErr /\ WrapperLift(h, k).err = NoErr
    /\ (/\ AllGivenSuccess
        /\ last.op \in {"Map", "OrElse", "Match", "Flatten", "Lift", "LiftM"}
        /\ last.out.ret)
            => Res.err = NoErr
    /\ (/\ AllGivenSuccess
        /\ last.op \in {"FlatMap", "FlatMapU", "LiftResult"}
        /\ last.fn.k = "ret")
            => last.out.ret /\ Res.err = last.fn.err
    /\ (/\ AllGivenSuccess
        /\ last.op \in {"FlatMap", "FlatMapU", "LiftResult"}
        /\ last.out.ret
        /\ last.fn.k # "ret")
            => Res.err = NoErr

C23_Witness ==
    /\ Made("Wrapper", {"FlatMap"})
    /\ ~RecvFailed
    /\ last.recv.val # Null
    /\ last.fn.k = "ret" /\ last.fn.err = NewError("forced error")
    /\ last.out.ret /\ Res.err = NewError("forced error")

(* C24: a call of Then, Map, FlatMap, Match, OrElse, Recover, Unwrap,      *)
(* Result or Flatten on a Success wrapper whose handle is nil returns      *)
(* without a panic when the function it is handed returns; Map returns a   *)
(* wrapper with a nil handle and no error.                                 *)
C24_NullHandleSafe ==
    (/\ Made("Wrapper", {"Then", "Map", "FlatMap", "Match", "OrElse", "Recover",
                         "Unwrap", "Result", "Flatten"})
     /\ ~RecvFailed
     /\ IF last.op = "Flatten" THEN last.recv.val.null ELSE last.recv.val = Null
     /\ last.op \in {"Then", "Map", "FlatMap", "Match", "Recover"} => last.fn.k = "ret")
        => /\ last.out.ret
           /\ last.op = "Map" => Res.val = Null /\ Res.err = NoErr

(* C25: Wrapper.Map on a Success wrapper calls f once with the wrapper's   *)
(* handle and returns a wrapper with the receiver's handle, error and      *)
(* handler; what f wrote through the handle is the value behind it         *)
(* afterwards, for the receiver the caller kept and for any wrapper with   *)
(* that handle, and nothing else changed.  A Then step that returns its    *)
(* argument and no error keeps the handle too, so a call on the kept       *)
(* wrapper starts from the value the step wrote.                           *)
C25_MapAliases ==
    /\ (Made("Wrapper", {"Map"}) /\ ~RecvFailed /\ last.fn.k = "ret") =>
        /\ last.out.ret
        /\ Res = last.recv
        /\ cur = last.recv
        /\ last.out.calls = <<Invoked("f", last.recv.val, NoErr)>>
        /\ heap = IF last.fn.mut /\ last.recv.val # Null
                  THEN [last.pre EXCEPT ![last.recv.val] = last.fn.mv]
                  ELSE last.pre
    /\ (/\ Made("Wrapper", {"Then"})
        /\ ~RecvFailed
        /\ last.fn.k = "ret" /\ last.fn.err = NoErr /\ last.fn.val = last.recv.val) =>
        /\ last.out.ret
        /\ Res.val = last.recv.val
        /\ WrapperResult(cur) = WrapperResult(last.recv)
        /\ (last.fn.mut /\ last.recv.val # Null) => heap[cur.val] = last.fn.mv

C25_Witness ==
    /\ Made("Wrapper", {"Map"})
    /\ ~RecvFailed
    /\ last.recv.val # Null
    /\ last.fn.k = "ret" /\ last.fn.mut
    /\ last.fn.mv # last.pre[last.recv.val]
    /\ heap[cur.val] = last.fn.mv

====
